---------------------------- MODULE Spec2Model ----------------------------
(***************************************************************************)
(* Portfolio Advisor backend (src/backend/main.py): the persistence store, *)
(* the API handlers that change it, the daily summary engine               *)
(* (generate_daily_summary), the report renderer (format_summary_email)    *)
(* and the summary dispatcher (send_daily_summaries).                      *)
(* The valuation of the frontend (src/frontend/app.py) is modelled over   *)
(* the holdings the API returns.                                           *)
(*                                                                         *)
(* Numbers.  Python floats are modelled by exact arithmetic: the inputs    *)
(* are small integers, and the three computed quotients (daily change,     *)
(* daily change percent, goal progress) are exact rationals [num, den].    *)
(*                                                                         *)
(* JSON.  A value decoded by json.loads, or stored in a JSON column, is a  *)
(* tagged record: JNull (Python None), JNum, JStr, JList, JObj (a dict,    *)
(* as a function from its keys).                                           *)
(***************************************************************************)
EXTENDS Integers, Sequences, FiniteSets, TLC

VARIABLES
    holdings,       \* table holdings (HoldingDB), in primary-key order
    wishlist,       \* table wishlist (WishlistDB)
    goals,          \* table goals (GoalDB)
    preferences,    \* table user_preferences (UserPreferencesDB)
    price_history,  \* table price_history (PriceHistoryDB)
    response,       \* what the last handler returned or raised
    run,            \* the send_daily_summaries job: its position and its users
    outbox,         \* the messages handed to send_email, in order
    log,            \* the errors printed by the job and by send_email
    clock,          \* the readings of datetime.utcnow() made so far
    calls           \* the outbound calls and waits of the last handler, in order

vars == <<holdings, wishlist, goals, preferences, price_history,
          response, run, outbox, log, clock, calls>>

store == <<holdings, wishlist, goals, preferences, price_history>>

---------------------------------------------------------------------------
(* Bounds of the model *)

MaxHoldings == 2
MaxWishlist == 2
MaxGoals == 2
MaxUsers == 2
MaxHistory == 2
MaxId == 3
MaxClock == 4
MaxOutbox == 2

---------------------------------------------------------------------------
(* JSON values and the Python operations the handlers apply to them *)

JNull == [t |-> "null"]
JNum(n) == [t |-> "num", n |-> n]
JStr(s) == [t |-> "str", s |-> s]
JList(xs) == [t |-> "list", xs |-> xs]
JObj(f) == [t |-> "obj", f |-> f]

\* Python truthiness: bool(v)
Truthy(v) ==
    CASE v.t = "null" -> FALSE
      [] v.t = "num"  -> v.n # 0
      [] v.t = "str"  -> v.s # ""
      [] v.t = "list" -> v.xs # <<>>
      [] v.t = "obj"  -> DOMAIN v.f # {}

\* Whether v.get(...) exists: only a dict has the method; on any other value
\* the call raises AttributeError.
HasGet(v) == v.t = "obj"

\* d.get(key, default) on a dict d
Get(d, key, default) == IF key \in DOMAIN d.f THEN d.f[key] ELSE default

EmptyDict == JObj([k \in {} |-> JNull])

---------------------------------------------------------------------------
(* Exact rationals: [num, den] with den > 0, in lowest terms *)

Abs(n) == IF n < 0 THEN -n ELSE n

RECURSIVE GCD(_, _)
GCD(a, b) == IF b = 0 THEN a ELSE GCD(b, a % b)

Rat(n, d) ==
    LET s == IF d < 0 THEN -1 ELSE 1
        g == GCD(Abs(n), Abs(d))
    IN  [num |-> (s * n) \div g, den |-> (s * d) \div g]

RInt(n) == [num |-> n, den |-> 1]
RMul(a, b) == Rat(a.num * b.num, a.den * b.den)
RSub(a, b) == Rat(a.num * b.den - b.num * a.den, a.den * b.den)
RDiv(a, b) == Rat(a.num * b.den, a.den * b.num)
RPos(a) == a.num > 0


---------------------------------------------------------------------------
(* Sequence helpers *)

\* Take with the limit forgotten
Take_NoLimit(xs, n) == xs

Take(xs, n) == SubSeq(xs, 1, IF Len(xs) < n THEN Len(xs) ELSE n)

RECURSIVE Concat(_)
Concat(xss) == IF xss = <<>> THEN <<>> ELSE Head(xss) \o Concat(Tail(xss))

RECURSIVE SumSeq(_)
SumSeq(ns) == IF ns = <<>> THEN 0 ELSE Head(ns) + SumSeq(Tail(ns))

Ids(rows) == {rows[i].id : i \in DOMAIN rows}

\* The primary key SQLite gives a new row: one more than the largest in use.
RECURSIVE MaxOf(_)
MaxOf(S) == IF S = {} THEN 0
            ELSE LET x == CHOOSE y \in S : TRUE
                     m == MaxOf(S \ {x})
                 IN  IF x > m THEN x ELSE m

NewId(rows) == MaxOf(Ids(rows)) + 1

\* db.delete(row): the table without the row of that primary key
Without(rows, id) == SelectSeq(rows, LAMBDA r : r.id # id)

---------------------------------------------------------------------------
(* The daily summary engine: generate_daily_summary *)

\* h.current_price or h.avg_price
EffectivePrice(h) ==
    IF Truthy(h.current_price) THEN h.current_price.n ELSE h.avg_price

\* sum(h.quantity * (h.current_price or h.avg_price) for h in holdings)
PortfolioValue(hs) ==
    SumSeq([i \in DOMAIN hs |-> hs[i].quantity * EffectivePrice(hs[i])])

\* yesterday_value = portfolio_value * 0.99
YesterdayValue(pv) == RMul(RInt(pv), Rat(99, 100))

DailyChange(pv) == RSub(RInt(pv), YesterdayValue(pv))

DailyChangePercent(pv) ==
    IF RPos(YesterdayValue(pv))
    THEN RMul(RDiv(DailyChange(pv), YesterdayValue(pv)), RInt(100))
    ELSE RInt(0)

\* The action-item loop raises AttributeError at a holding whose stored
\* recommendations are truthy but not a dict, or whose '1m' entry is not a
\* dict: recs.get('1m', {}).get('action').
RecsRaise(h) ==
    /\ Truthy(h.recommendations)
    /\ \/ ~HasGet(h.recommendations)
       \/ ~HasGet(Get(h.recommendations, "1m", EmptyDict))

ActionItem(type, h, bucket) ==
    [type |-> type, symbol |-> h.symbol, name |-> h.name,
     reason |-> Get(bucket, "reason", JStr(""))]

\* HoldingItems with the BUY branch lost
HoldingItems_SellOnly(h) ==
    IF ~Truthy(h.recommendations) THEN <<>>
    ELSE LET bucket == Get(h.recommendations, "1m", EmptyDict)
             action == Get(bucket, "action", JNull)
         IN  IF action = JStr("SELL") THEN <<ActionItem("SELL", h, bucket)>>
             ELSE <<>>

\* The items one holding contributes (RecsRaise(h) is false)
HoldingItems(h) ==
    IF ~Truthy(h.recommendations) THEN <<>>
    ELSE LET bucket == Get(h.recommendations, "1m", EmptyDict)
             action == Get(bucket, "action", JNull)
         IN  IF action = JStr("SELL") THEN <<ActionItem("SELL", h, bucket)>>
             ELSE IF action = JStr("BUY")
                  THEN <<ActionItem("BUY_MORE", h, bucket)>>
                  ELSE <<>>

ActionItems(hs) == Concat([i \in DOMAIN hs |-> HoldingItems(hs[i])])

\* Alerts with a strict comparison
Alerts_Strict(item) == item.current_price < item.target_price

\* if item.current_price <= item.target_price
Alerts(item) == item.current_price <= item.target_price

WatchlistAlert(item) ==
    [symbol |-> item.symbol, name |-> item.name,
     current_price |-> item.current_price, target_price |-> item.target_price]

WatchlistAlerts(ws) ==
    Concat([i \in DOMAIN ws |->
              IF Alerts(ws[i]) THEN <<WatchlistAlert(ws[i])>> ELSE <<>>])

\* Progress as a fraction, the factor 100 forgotten
Progress_Fraction(goal) ==
    IF goal.target_amount > 0
    THEN RDiv(RInt(goal.current_amount), RInt(goal.target_amount))
    ELSE RInt(0)

\* (goal.current_amount / goal.target_amount * 100) if goal.target_amount > 0 else 0
Progress(goal) ==
    IF goal.target_amount > 0
    THEN RMul(RDiv(RInt(goal.current_amount), RInt(goal.target_amount)), RInt(100))
    ELSE RInt(0)

GoalProgress(gs) ==
    [i \in DOMAIN gs |->
        [name |-> gs[i].name, progress |-> Progress(gs[i]),
         current |-> gs[i].current_amount, target |-> gs[i].target_amount]]

\* generate_new_opportunities: what it returns for one outcome of the HTTP
\* exchange.  Outcome [t |-> "exc"] is every path into the except clause
\* (timeout, transport error, a reply without content[0].text, a text that
\* json.loads rejects): opportunities stays [].  Any other outcome is the
\* value json.loads returned, whatever its shape.
OppFailure == [t |-> "exc"]

generate_new_opportunities(outcome) ==
    IF outcome = OppFailure THEN JList(<<>>) ELSE outcome

\* fetch_market_news: the fixed one-item list
NewsItem ==
    JObj([title |-> JStr("Indian Markets Rally on Positive Economic Data"),
          description |-> JStr("Sensex and Nifty hit new highs"),
          url |-> JStr("https://example.com/news1"),
          sentiment |-> JStr("positive")])

fetch_market_news == JList(<<NewsItem>>)

\* v[:n]: a list gives its prefix, a str gives a str; anything else raises.
CanSlice(v) == v.t \in {"list", "str"}

OppLimit == 3
NewsLimit == 5

\* The pydantic check of a List[Dict] field of DailySummary
IsListOfDict(v) ==
    /\ v.t = "list"
    /\ \A i \in DOMAIN v.xs : v.xs[i].t = "obj"

Raised(error) == [status |-> "raise", error |-> error]

generate_daily_summary(hs, gs, ws, oppOutcome) ==
    LET pv == PortfolioValue(hs)
        opps == generate_new_opportunities(oppOutcome)
        news == fetch_market_news
    IN  IF \E i \in DOMAIN hs : RecsRaise(hs[i])
        THEN Raised("AttributeError")
        ELSE IF ~CanSlice(opps) \/ ~CanSlice(news)
        THEN Raised("TypeError")
        ELSE IF ~IsListOfDict(opps) \/ ~IsListOfDict(news)
        THEN Raised("ValidationError")
        ELSE [status |-> "ok",
              summary |->
                [portfolio_value |-> pv,
                 daily_change |-> DailyChange(pv),
                 daily_change_percent |-> DailyChangePercent(pv),
                 action_items |-> ActionItems(hs),
                 new_opportunities |-> Take(opps.xs, OppLimit),
                 watchlist_alerts |-> WatchlistAlerts(ws),
                 news_digest |-> Take(news.xs, NewsLimit),
                 goal_progress |-> GoalProgress(gs)]]

---------------------------------------------------------------------------
(* The report renderer: format_summary_email.  The HTML body is the        *)
(* sequence of its elements: the headers, one element per list entry, and  *)
(* the placeholder paragraphs.                                             *)

RECURSIVE Pow10(_)
Pow10(d) == IF d = 0 THEN 1 ELSE 10 * Pow10(d - 1)

\* format(x, ".<places>f"): x rounded to that many decimals, ties to even,
\* as the number of units of the last place.
FormatFixed(r, places) ==
    LET n == Abs(r.num) * Pow10(places)
        q == n \div r.den
        rem == n % r.den
        up == \/ 2 * rem > r.den
              \/ 2 * rem = r.den /\ q % 2 = 1
    IN  [negative |-> r.num < 0, units |-> IF up THEN q + 1 ELSE q,
         places |-> places]

Text(k, text) == [k |-> k, text |-> text]
Div(section, v) == [k |-> "div", section |-> section, v |-> v]

OverviewHtml(summary) ==
    << Text("h2", "Portfolio Overview"),
       Div("overview",
           [total |-> FormatFixed(RInt(summary.portfolio_value), 2),
            direction |-> IF summary.daily_change.num >= 0 THEN "positive"
                          ELSE "negative",
            change |-> FormatFixed(
                         [summary.daily_change EXCEPT !.num = Abs(@)], 2),
            percent |-> FormatFixed(summary.daily_change_percent, 2)]) >>

ActionItemsHtml(summary) ==
    << Text("h2", "Action Items") >> \o
    IF summary.action_items # <<>>
    THEN [i \in DOMAIN summary.action_items |->
            Div("action_items", summary.action_items[i])]
    ELSE << Text("p", "No immediate actions required.") >>

OppKeys == {"name", "symbol", "sector", "current_price", "target_price", "reasoning"}

\* opp["name"] ... opp["reasoning"]: a missing key raises KeyError
OppKeyError(summary) ==
    \E i \in DOMAIN summary.new_opportunities :
        ~(OppKeys \subseteq DOMAIN summary.new_opportunities[i].f)

OpportunitiesHtml(summary) ==
    << Text("h2", "New Opportunities") >> \o
    IF summary.new_opportunities # <<>>
    THEN [i \in DOMAIN summary.new_opportunities |->
            Div("new_opportunities",
                [k \in OppKeys |-> summary.new_opportunities[i].f[k]])]
    ELSE << Text("p", "No new opportunities identified.") >>

WatchlistHtml(summary) ==
    << Text("h2", "Watchlist Alerts") >> \o
    IF summary.watchlist_alerts # <<>>
    THEN [i \in DOMAIN summary.watchlist_alerts |->
            Div("watchlist_alerts", summary.watchlist_alerts[i])]
    ELSE << Text("p", "No watchlist alerts today.") >>

NewsKeys == {"title", "description"}
NewsShown == 3

NewsKeyError(summary) ==
    \E i \in DOMAIN Take(summary.news_digest, NewsShown) :
        ~(NewsKeys \subseteq DOMAIN summary.news_digest[i].f)

\* The join over summary.news_digest[:3] has no else branch.
NewsHtml(summary) ==
    << Text("h2", "Market News") >> \o
    [i \in DOMAIN Take(summary.news_digest, NewsShown) |->
        Div("news_digest", [k \in NewsKeys |-> summary.news_digest[i].f[k]])]

GoalHtml(goal) ==
    [name |-> goal.name,
     progress |-> FormatFixed(goal.progress, 1),
     current |-> FormatFixed(RInt(goal.current), 0),
     target |-> FormatFixed(RInt(goal.target), 0)]

GoalsHtml(summary) ==
    << Text("h2", "Goal Progress") >> \o
    IF summary.goal_progress # <<>>
    THEN [i \in DOMAIN summary.goal_progress |->
            Div("goal_progress", GoalHtml(summary.goal_progress[i]))]
    ELSE << Text("p", "No goals set yet.") >>

format_summary_email(summary) ==
    IF OppKeyError(summary) \/ NewsKeyError(summary)
    THEN Raised("KeyError")
    ELSE [status |-> "ok",
          body |-> << Text("h1", "Your Daily Portfolio Summary") >>
                   \o OverviewHtml(summary)
                   \o ActionItemsHtml(summary)
                   \o OpportunitiesHtml(summary)
                   \o WatchlistHtml(summary)
                   \o NewsHtml(summary)
                   \o GoalsHtml(summary)]

---------------------------------------------------------------------------
(* Requests and gateway replies the handlers are exercised with *)

Emails == {"a@x.in", "b@x.in", "c@x.in"}

\* HoldingCreate: Optional[float] current_price is None (JNull) or a number
HoldingRequest(name, symbol, quantity, avg_price, current_price) ==
    [name |-> name, symbol |-> symbol, type |-> "stock", quantity |-> quantity,
     avg_price |-> avg_price, current_price |-> current_price]

HoldingRequests ==
    { HoldingRequest("Tata Consultancy", "TCS", 2, 3, JNull),
      HoldingRequest("Tata Consultancy", "TCS", 2, 3, JNum(0)),
      HoldingRequest("Infosys", "INFY", 1, 2, JNum(1)),
      HoldingRequest("Infosys", "INFY", 3, 2, JNull) }

\* fetch_live_price: None (empty data, or an exception) or the last close
LivePrices == {JNull, JNum(0), JNum(4)}

WishlistRequest(name, symbol, current_price, target_price) ==
    [name |-> name, symbol |-> symbol,
     current_price |-> current_price, target_price |-> target_price]

WishlistRequests ==
    { WishlistRequest("Wipro", "WIPRO", 5, 6),
      WishlistRequest("HCL Tech", "HCL", 6, 6),
      WishlistRequest("Larsen", "LT", 7, 6) }

GoalRequest(name, target_amount, current_amount) ==
    [name |-> name, target_amount |-> target_amount,
     current_amount |-> current_amount, priority |-> "high"]

GoalRequests ==
    { GoalRequest("House", 1000, 250),
      GoalRequest("Car", 0, 50),
      GoalRequest("Trip", 300, 400) }

\* UserPreferences with the defaults of its optional fields
PreferenceRequest(email, enabled) ==
    [email |-> email, notification_time |-> "08:00", risk_profile |-> "moderate",
     preferred_sectors |-> <<>>, daily_summary_enabled |-> enabled]

PreferenceRequests == {PreferenceRequest(e, on) : e \in Emails, on \in BOOLEAN}

\* TimeHorizon
Horizons == {"1m", "1-6m", "6m-1y", "1-3y", "3-5y", "5y+"}

Bucket(action, reason) == JObj([action |-> JStr(action), reason |-> JStr(reason)])

RecSet(keys, action, reason) ==
    JObj([k \in keys |-> IF k = "1m" THEN Bucket(action, reason)
                         ELSE Bucket("HOLD", "steady")])

\* get_claude_analysis: None (any exception) or whatever json.loads returned
AnalysisReplies ==
    { JNull,
      EmptyDict,
      RecSet(Horizons, "SELL", "overvalued"),
      RecSet(Horizons, "BUY", "undervalued"),
      RecSet(Horizons, "HOLD", "steady"),
      RecSet(Horizons \ {"1m"}, "HOLD", "steady"),
      JObj([k \in {"1m"} |-> JObj([action |-> JStr("SELL")])]),
      JObj([k \in {"1m"} |-> JStr("SELL")]),
      JList(<<JStr("SELL")>>) }

Opp(symbol) ==
    JObj([name |-> JStr(symbol), symbol |-> JStr(symbol), sector |-> JStr("IT"),
          current_price |-> JNum(10), target_price |-> JNum(12),
          reasoning |-> JStr("growth")])

\* The outcomes of the opportunity request
OppOutcomes ==
    { OppFailure,
      JList(<<>>),
      JList(<<Opp("WIPRO"), Opp("HCL")>>),
      JList(<<Opp("WIPRO"), Opp("HCL"), Opp("LT"), Opp("SBI")>>),
      JList(<<JObj([name |-> JStr("WIPRO")])>>),
      JList(<<JNum(1), JNum(2)>>),
      JObj([stocks |-> JList(<<Opp("WIPRO")>>)]),
      JStr("none today"),
      JNull }

---------------------------------------------------------------------------
(* The store's initial state and the API handlers *)

Idle == [pc |-> "idle", users |-> <<>>, i |-> 0]

Init ==
    /\ holdings = <<>>
    /\ wishlist = <<>>
    /\ goals = <<>>
    /\ preferences = <<>>
    /\ price_history = <<>>
    /\ response = [op |-> "none", status |-> 0]
    /\ run = Idle
    /\ outbox = <<>>
    /\ log = <<>>
    /\ clock = 0
    /\ calls = <<>>

Reply(op, status) == [op |-> op, status |-> status]

Find(rows, id) == CHOOSE r \in {rows[i] : i \in DOMAIN rows} : r.id = id

\* The table with the row of primary key id replaced by row
Put(rows, id, row) == [i \in DOMAIN rows |-> IF rows[i].id = id THEN row ELSE rows[i]]

\* The identifiers a by-identifier request is tried with: those in use and
\* one that is not.
Candidates(rows) == Ids(rows) \cup {NewId(rows)}

\* The outbound calls a handler makes, and the wait of the batch analysis
PriceCall(symbol) == [to |-> "fetch_live_price", symbol |-> symbol]
AnalysisCall(symbol) == [to |-> "get_claude_analysis", symbol |-> symbol]
OpportunityCall == [to |-> "generate_new_opportunities", symbol |-> ""]
NewsCall == [to |-> "fetch_market_news", symbol |-> ""]
Sleep == [to |-> "asyncio.sleep", symbol |-> ""]

\* The calls of generate_daily_summary: the two gateways, in this order,
\* unless the walk over the recommendation sets has raised before them
GenerateCalls(hs) ==
    IF \E i \in DOMAIN hs : RecsRaise(hs[i]) THEN <<>>
    ELSE <<OpportunityCall, NewsCall>>

\* datetime.utcnow(): a reading later than every reading before it
utcnow == clock + 1

\* POST /api/holdings
NewHolding(req, live, id) ==
    [id |-> id, name |-> req.name, symbol |-> req.symbol, type |-> req.type,
     quantity |-> req.quantity, avg_price |-> req.avg_price,
     current_price |-> IF req.current_price = JNull THEN live
                       ELSE req.current_price,
     recommendations |-> JNull,
     last_updated |-> utcnow]

\* The constraint of HoldingCreate: type matches ^(stock|mutual-fund)$.  Its
\* other fields are typed (str, float, Optional) and carry no range.
HoldingCreateValid(req) == req.type \in {"stock", "mutual-fund"}

create_holding(req, live) ==
    /\ IF ~HoldingCreateValid(req)
       THEN /\ response' = Reply("create_holding", 422)
            /\ calls' = <<>>
            /\ UNCHANGED <<holdings, clock>>
       ELSE /\ Len(holdings) < MaxHoldings
            /\ NewId(holdings) <= MaxId
            /\ clock < MaxClock
            /\ holdings' = Append(holdings, NewHolding(req, live, NewId(holdings)))
            /\ clock' = utcnow
            /\ calls' = IF req.current_price = JNull
                        THEN <<PriceCall(req.symbol)>> ELSE <<>>
            /\ response' = Reply("create_holding", 200)
    /\ UNCHANGED <<wishlist, goals, preferences, price_history, run, outbox, log>>

\* GET /api/holdings/{holding_id}
get_holding(id) ==
    /\ response' = IF id \notin Ids(holdings) THEN Reply("get_holding", 404)
                   ELSE [op |-> "get_holding", status |-> 200,
                         holding |-> Find(holdings, id)]
    /\ calls' = <<>>
    /\ UNCHANGED <<store, run, outbox, log, clock>>

\* Record with an entry per ticker, the new price written over the old one
Record_Overwrite(history, symbol, price, now) ==
    IF \E i \in DOMAIN history : history[i].symbol = symbol
    THEN [i \in DOMAIN history |->
            IF history[i].symbol = symbol
            THEN [symbol |-> symbol, price |-> price, timestamp |-> now]
            ELSE history[i]]
    ELSE Append(history, [symbol |-> symbol, price |-> price, timestamp |-> now])

\* db.add(PriceHistoryDB(symbol=..., price=...)): a new row, after the others
Record(history, symbol, price, now) ==
    Append(history, [symbol |-> symbol, price |-> price, timestamp |-> now])

\* Refreshed with the average cost moved to the fetched price as well
Refreshed_Rebased(h, live, now) ==
    [h EXCEPT !.current_price = live, !.avg_price = live.n, !.last_updated = now]

\* holding.current_price = new_price; holding.last_updated = datetime.utcnow()
Refreshed(h, live, now) ==
    [h EXCEPT !.current_price = live, !.last_updated = now]

\* PUT /api/holdings/{holding_id}/price
update_holding_price(id, live) ==
    /\ IF id \notin Ids(holdings)
       THEN /\ response' = Reply("update_holding_price", 404)
            /\ UNCHANGED <<holdings, price_history, clock>>
       ELSE LET h == Find(holdings, id)
            IN  IF Truthy(live)
                THEN /\ Len(price_history) < MaxHistory
                     /\ clock < MaxClock
                     /\ holdings' = Put(holdings, id, Refreshed(h, live, utcnow))
                     /\ price_history' = Record(price_history, h.symbol, live.n, utcnow)
                     /\ clock' = utcnow
                     /\ response' = [op |-> "update_holding_price", status |-> 200,
                                     id |-> id, price |-> live.n]
                ELSE /\ response' = Reply("update_holding_price", 400)
                     /\ UNCHANGED <<holdings, price_history, clock>>
    /\ calls' = IF id \notin Ids(holdings) THEN <<>>
                ELSE <<PriceCall(Find(holdings, id).symbol)>>
    /\ UNCHANGED <<wishlist, goals, preferences, run, outbox, log>>

\* Advised with the buckets of the reply added to those already stored
Advised_Merged(h, reply, now) ==
    LET old == h.recommendations
    IN  [h EXCEPT
           !.recommendations =
               IF old.t = "obj" /\ reply.t = "obj"
               THEN JObj([k \in DOMAIN old.f \cup DOMAIN reply.f |->
                            IF k \in DOMAIN reply.f THEN reply.f[k] ELSE old.f[k]])
               ELSE reply,
           !.last_updated = now]

\* holding.recommendations = recommendations; holding.last_updated = datetime.utcnow()
Advised(h, reply, now) ==
    [h EXCEPT !.recommendations = reply, !.last_updated = now]

\* The request of an analysis, as the response of the model keeps it
Analyzed(status, id, live, reply) ==
    [op |-> "analyze_holding", status |-> status, id |-> id,
     fetched |-> live, recommendations |-> reply]

\* analyze_holding with the refreshed price committed before the analysis
analyze_holding_CommitsPrice(id, live, reply) ==
    /\ IF id \notin Ids(holdings)
       THEN /\ response' = Reply("analyze_holding", 404)
            /\ UNCHANGED <<holdings, clock>>
       ELSE LET h == Find(holdings, id)
                priced == IF Truthy(live) THEN [h EXCEPT !.current_price = live] ELSE h
            IN  /\ clock < MaxClock
                /\ clock' = utcnow
                /\ IF Truthy(reply)
                   THEN /\ holdings' = Put(holdings, id,
                               [priced EXCEPT !.recommendations = reply,
                                              !.last_updated = utcnow])
                        /\ response' = Analyzed(200, id, live, reply)
                   ELSE /\ holdings' = Put(holdings, id, priced)
                        /\ response' = Analyzed(500, id, live, reply)
    /\ calls' = IF id \notin Ids(holdings) THEN <<>>
                ELSE <<PriceCall(Find(holdings, id).symbol),
                       AnalysisCall(Find(holdings, id).symbol)>>
    /\ UNCHANGED <<wishlist, goals, preferences, price_history, run, outbox, log>>

\* POST /api/holdings/{holding_id}/analyze.  The price is set on the session's
\* object first; it reaches the table only with the commit, which only the
\* success branch makes: the HTTPException of the failure branch leaves the
\* handler, get_db closes the session and the pending change is dropped.
analyze_holding(id, live, reply) ==
    /\ IF id \notin Ids(holdings)
       THEN /\ response' = Reply("analyze_holding", 404)
            /\ UNCHANGED <<holdings, clock>>
       ELSE LET h == Find(holdings, id)
                priced == IF Truthy(live) THEN [h EXCEPT !.current_price = live] ELSE h
            IN  IF Truthy(reply)
                THEN /\ clock < MaxClock
                     /\ holdings' = Put(holdings, id, Advised(priced, reply, utcnow))
                     /\ clock' = utcnow
                     /\ response' = Analyzed(200, id, live, reply)
                ELSE /\ response' = Analyzed(500, id, live, reply)
                     /\ UNCHANGED <<holdings, clock>>
    /\ calls' = IF id \notin Ids(holdings) THEN <<>>
                ELSE <<PriceCall(Find(holdings, id).symbol),
                       AnalysisCall(Find(holdings, id).symbol)>>
    /\ UNCHANGED <<wishlist, goals, preferences, price_history, run, outbox, log>>

\* DELETE /api/holdings/{holding_id}
delete_holding(id) ==
    /\ IF id \notin Ids(holdings)
       THEN /\ response' = Reply("delete_holding", 404)
            /\ UNCHANGED holdings
       ELSE /\ holdings' = Without(holdings, id)
            /\ response' = Reply("delete_holding", 200)
    /\ calls' = <<>>
    /\ UNCHANGED <<wishlist, goals, preferences, price_history, run, outbox, log, clock>>

\* POST /api/wishlist
create_wishlist_item(req) ==
    /\ Len(wishlist) < MaxWishlist
    /\ NewId(wishlist) <= MaxId
    /\ wishlist' = Append(wishlist,
            [id |-> NewId(wishlist), name |-> req.name, symbol |-> req.symbol,
             current_price |-> req.current_price, target_price |-> req.target_price])
    /\ response' = Reply("create_wishlist_item", 200)
    /\ calls' = <<>>
    /\ UNCHANGED <<holdings, goals, preferences, price_history, run, outbox, log, clock>>

\* DELETE /api/wishlist/{item_id}
delete_wishlist_item(id) ==
    /\ IF id \notin Ids(wishlist)
       THEN /\ response' = Reply("delete_wishlist_item", 404)
            /\ UNCHANGED wishlist
       ELSE /\ wishlist' = Without(wishlist, id)
            /\ response' = Reply("delete_wishlist_item", 200)
    /\ calls' = <<>>
    /\ UNCHANGED <<holdings, goals, preferences, price_history, run, outbox, log, clock>>

\* The constraint of GoalCreate: priority matches ^(high|medium|low)$.  Its
\* amounts are floats and carry no range.
GoalCreateValid(req) == req.priority \in {"high", "medium", "low"}

\* POST /api/goals
create_goal(req) ==
    /\ IF ~GoalCreateValid(req)
       THEN /\ response' = Reply("create_goal", 422)
            /\ UNCHANGED goals
       ELSE /\ Len(goals) < MaxGoals
            /\ NewId(goals) <= MaxId
            /\ goals' = Append(goals,
                    [id |-> NewId(goals), name |-> req.name,
                     target_amount |-> req.target_amount,
                     current_amount |-> req.current_amount])
            /\ response' = Reply("create_goal", 200)
    /\ calls' = <<>>
    /\ UNCHANGED <<holdings, wishlist, preferences, price_history, run, outbox, log, clock>>

\* delete_goal answering "deleted" for a goal that is not stored
delete_goal_Lenient(id) ==
    /\ goals' = IF id \in Ids(goals) THEN Without(goals, id) ELSE goals
    /\ response' = Reply("delete_goal", 200)
    /\ calls' = <<>>
    /\ UNCHANGED <<holdings, wishlist, preferences, price_history, run, outbox, log, clock>>

\* DELETE /api/goals/{goal_id}
delete_goal(id) ==
    /\ IF id \notin Ids(goals)
       THEN /\ response' = Reply("delete_goal", 404)
            /\ UNCHANGED goals
       ELSE /\ goals' = Without(goals, id)
            /\ response' = Reply("delete_goal", 200)
    /\ calls' = <<>>
    /\ UNCHANGED <<holdings, wishlist, preferences, price_history, run, outbox, log, clock>>

UserEmails == {preferences[i].email : i \in DOMAIN preferences}

\* The row of a request: UserPreferencesDB(**prefs.dict())
NewPreferences(prefs, id) ==
    [id |-> id, email |-> prefs.email,
     notification_time |-> prefs.notification_time,
     risk_profile |-> prefs.risk_profile,
     preferred_sectors |-> prefs.preferred_sectors,
     daily_summary_enabled |-> prefs.daily_summary_enabled]

Saved(detail, prefs) ==
    [op |-> "update_preferences", status |-> 200, detail |-> detail,
     preferences |-> prefs]

\* update_preferences without the lookup of the existing row
update_preferences_AlwaysInsert(prefs) ==
    /\ Len(preferences) < MaxUsers
    /\ preferences' = Append(preferences, NewPreferences(prefs, NewId(preferences)))
    /\ response' = Saved("created", prefs)
    /\ calls' = <<>>
    /\ UNCHANGED <<holdings, wishlist, goals, price_history, run, outbox, log, clock>>

\* POST /api/preferences
update_preferences(prefs) ==
    /\ IF prefs.email \in UserEmails
       THEN /\ preferences' =
                 [i \in DOMAIN preferences |->
                    IF preferences[i].email = prefs.email
                    THEN NewPreferences(prefs, preferences[i].id)
                    ELSE preferences[i]]
            /\ response' = Saved("updated", prefs)
       ELSE /\ Len(preferences) < MaxUsers
            /\ preferences' = Append(preferences, NewPreferences(prefs, NewId(preferences)))
            /\ response' = Saved("created", prefs)
    /\ calls' = <<>>
    /\ UNCHANGED <<holdings, wishlist, goals, price_history, run, outbox, log, clock>>

\* get_daily_summary with the first opportunity it obtained kept in the
\* wishlist
get_daily_summary_Persisting(email, oppOutcome) ==
    /\ IF email \notin UserEmails
       THEN /\ response' = Reply("get_daily_summary", 404)
            /\ UNCHANGED wishlist
       ELSE LET result == generate_daily_summary(holdings, goals, wishlist, oppOutcome)
            IN  /\ response' =
                     [op |-> "get_daily_summary",
                      status |-> IF result.status = "ok" THEN 200 ELSE 500,
                      result |-> result,
                      outcome |-> oppOutcome]
                /\ IF /\ result.status = "ok"
                      /\ result.summary.new_opportunities # <<>>
                      /\ Len(wishlist) < MaxWishlist
                      /\ NewId(wishlist) <= MaxId
                   THEN wishlist' = Append(wishlist,
                           [id |-> NewId(wishlist), name |-> "Opportunity",
                            symbol |-> "OPP", current_price |-> 10,
                            target_price |-> 12])
                   ELSE UNCHANGED wishlist
    /\ calls' = IF email \notin UserEmails THEN <<>> ELSE GenerateCalls(holdings)
    /\ UNCHANGED <<holdings, goals, preferences, price_history, run, outbox, log, clock>>

\* GET /api/preferences/{email}
get_preferences(email) ==
    /\ response' = IF email \notin UserEmails THEN Reply("get_preferences", 404)
                   ELSE [op |-> "get_preferences", status |-> 200,
                         preferences |-> CHOOSE r \in {preferences[i] : i \in DOMAIN preferences} :
                                            r.email = email]
    /\ calls' = <<>>
    /\ UNCHANGED <<store, run, outbox, log, clock>>

\* get_daily_summary with each alert reported once: the tickers already
\* alerted are remembered and left out of the later reports
get_daily_summary_EdgeTriggered(email, oppOutcome) ==
    /\ IF email \notin UserEmails
       THEN /\ response' = Reply("get_daily_summary", 404)
            /\ UNCHANGED log
       ELSE LET result == generate_daily_summary(holdings, goals, wishlist, oppOutcome)
                fresh == IF result.status = "ok"
                         THEN SelectSeq(result.summary.watchlist_alerts,
                                  LAMBDA a : \A j \in DOMAIN log : log[j].email # a.symbol)
                         ELSE <<>>
            IN  /\ response' =
                     [op |-> "get_daily_summary",
                      status |-> IF result.status = "ok" THEN 200 ELSE 500,
                      result |-> IF result.status = "ok"
                                 THEN [result EXCEPT !.summary.watchlist_alerts = fresh]
                                 ELSE result,
                      outcome |-> oppOutcome]
                /\ log' = log \o [j \in DOMAIN fresh |->
                                    [email |-> fresh[j].symbol, error |-> "alerted"]]
    /\ calls' = IF email \notin UserEmails THEN <<>> ELSE GenerateCalls(holdings)
    /\ UNCHANGED <<store, run, outbox, clock>>

\* GET /api/summary/{email}
get_daily_summary(email, oppOutcome) ==
    /\ IF email \notin UserEmails
       THEN response' = Reply("get_daily_summary", 404)
       ELSE LET result == generate_daily_summary(holdings, goals, wishlist, oppOutcome)
            IN  response' =
                  [op |-> "get_daily_summary",
                   status |-> IF result.status = "ok" THEN 200 ELSE 500,
                   result |-> result,
                   outcome |-> oppOutcome]
    /\ calls' = IF email \notin UserEmails THEN <<>> ELSE GenerateCalls(holdings)
    /\ UNCHANGED <<store, run, outbox, log, clock>>

\* The loop of batch_update_prices from holding i on: st carries the rows,
\* the history, the clock and the calls as the iterations before left them.
\* The two readings of the clock of one iteration (last_updated, and the
\* default timestamp of the new history row) are one reading here.
RECURSIVE UpdatePrices(_, _, _)
UpdatePrices(st, lives, i) ==
    IF i > Len(st.holdings) THEN st
    ELSE LET h == st.holdings[i]
             now == st.clock + 1
             called == Append(st.calls, PriceCall(h.symbol))
         IN  IF Truthy(lives[i])
             THEN UpdatePrices(
                    [holdings |-> [st.holdings EXCEPT ![i] = Refreshed(h, lives[i], now)],
                     price_history |-> Record(st.price_history, h.symbol, lives[i].n, now),
                     clock |-> now,
                     updated |-> st.updated + 1,
                     calls |-> called],
                    lives, i + 1)
             ELSE UpdatePrices([st EXCEPT !.calls = called], lives, i + 1)

\* POST /api/batch/update-prices; lives[i] is what fetch_live_price returns
\* for the i-th holding
batch_update_prices(lives) ==
    LET st == UpdatePrices([holdings |-> holdings, price_history |-> price_history,
                            clock |-> clock, updated |-> 0, calls |-> <<>>], lives, 1)
    IN  /\ Len(st.price_history) <= MaxHistory
        /\ st.clock <= MaxClock
        /\ holdings' = st.holdings
        /\ price_history' = st.price_history
        /\ clock' = st.clock
        /\ calls' = st.calls
        /\ response' = [op |-> "batch_update_prices", status |-> 200,
                        updated |-> st.updated, total |-> Len(holdings),
                        fetched |-> lives]
        /\ UNCHANGED <<wishlist, goals, preferences, run, outbox, log>>

\* AnalyzeAll with the wait made after a successful request only
RECURSIVE AnalyzeAll_WaitsOnSuccess(_, _, _)
AnalyzeAll_WaitsOnSuccess(st, replies, i) ==
    IF i > Len(st.holdings) THEN st
    ELSE LET h == st.holdings[i]
             now == st.clock + 1
         IN  IF Truthy(replies[i])
             THEN AnalyzeAll_WaitsOnSuccess(
                    [holdings |-> [st.holdings EXCEPT ![i] = Advised(h, replies[i], now)],
                     clock |-> now,
                     analyzed |-> st.analyzed + 1,
                     calls |-> st.calls \o <<AnalysisCall(h.symbol), Sleep>>],
                    replies, i + 1)
             ELSE AnalyzeAll_WaitsOnSuccess(
                    [st EXCEPT !.calls = Append(st.calls, AnalysisCall(h.symbol))],
                    replies, i + 1)

\* AnalyzeAll with the loop left at the first request that fails
RECURSIVE AnalyzeAll_StopsAtFailure(_, _, _)
AnalyzeAll_StopsAtFailure(st, replies, i) ==
    IF i > Len(st.holdings) THEN st
    ELSE LET h == st.holdings[i]
             now == st.clock + 1
             called == st.calls \o <<AnalysisCall(h.symbol), Sleep>>
         IN  IF Truthy(replies[i])
             THEN AnalyzeAll_StopsAtFailure(
                    [holdings |-> [st.holdings EXCEPT ![i] = Advised(h, replies[i], now)],
                     clock |-> now,
                     analyzed |-> st.analyzed + 1,
                     calls |-> called],
                    replies, i + 1)
             ELSE [st EXCEPT !.calls = called]

\* The loop of batch_analyze_all from holding i on: the request, the
\* assignment when the reply is truthy, and the wait of one second
RECURSIVE AnalyzeAll(_, _, _)
AnalyzeAll(st, replies, i) ==
    IF i > Len(st.holdings) THEN st
    ELSE LET h == st.holdings[i]
             now == st.clock + 1
             called == st.calls \o <<AnalysisCall(h.symbol), Sleep>>
         IN  IF Truthy(replies[i])
             THEN AnalyzeAll(
                    [holdings |-> [st.holdings EXCEPT ![i] = Advised(h, replies[i], now)],
                     clock |-> now,
                     analyzed |-> st.analyzed + 1,
                     calls |-> called],
                    replies, i + 1)
             ELSE AnalyzeAll([st EXCEPT !.calls = called], replies, i + 1)

\* POST /api/batch/analyze-all; replies[i] is what get_claude_analysis returns
\* for the i-th holding.  The requests of other clients that the one-second
\* waits of the loop let in are not modelled.
batch_analyze_all(replies) ==
    LET st == AnalyzeAll([holdings |-> holdings, clock |-> clock, analyzed |-> 0,
                          calls |-> <<>>], replies, 1)
    IN  /\ st.clock <= MaxClock
        /\ holdings' = st.holdings
        /\ clock' = st.clock
        /\ calls' = st.calls
        /\ response' = [op |-> "batch_analyze_all", status |-> 200,
                        analyzed |-> st.analyzed, total |-> Len(holdings),
                        recommendations |-> replies]
        /\ UNCHANGED <<wishlist, goals, preferences, price_history, run, outbox, log>>

---------------------------------------------------------------------------
(* The summary dispatcher: send_daily_summaries, one step per user.  The   *)
(* model follows one run of the scheduled job.                             *)

\* send_email's ways to end: the message sent, no credentials configured
\* (it returns at once), or an SMTP exception, which it catches itself.
SmtpOutcomes == {"sent", "no_credentials", "smtp_error"}

\* generate_daily_summary, then format_summary_email: the message for one
\* user, or the exception one of the two raised.
SummaryMail(email, subject, hs, gs, ws, oppOutcome) ==
    LET generated == generate_daily_summary(hs, gs, ws, oppOutcome)
    IN  IF generated.status = "raise" THEN generated
        ELSE LET formatted == format_summary_email(generated.summary)
             IN  IF formatted.status = "raise" THEN formatted
                 ELSE [status |-> "ok",
                       mail |-> [to |-> email, subject |-> subject,
                                 body |-> formatted.body]]

\* EnabledUsers without the filter on the flag
EnabledUsers_All(prefs) == [i \in DOMAIN prefs |-> prefs[i].email]

\* The users the job loads: the rows with daily_summary_enabled == True
EnabledUsers(prefs) ==
    LET rows == SelectSeq(prefs, LAMBDA u : u.daily_summary_enabled)
    IN  [i \in DOMAIN rows |-> rows[i].email]

\* AfterUser without the except clause: the exception leaves the loop
AfterUser_Propagates(r, failed) ==
    IF failed THEN [r EXCEPT !.pc = "raised"] ELSE [r EXCEPT !.i = @ + 1]

\* The loop's position after one user: the except clause of the loop body
\* catches whatever the three calls raised, prints it, and the loop goes on.
AfterUser(r, failed) == [r EXCEPT !.i = @ + 1]

DispatchStart ==
    /\ run.pc = "idle"
    /\ run' = [pc |-> "loop", users |-> EnabledUsers(preferences), i |-> 1]
    /\ response' = [op |-> "send_daily_summaries", status |-> 0, at |-> "started"]
    /\ calls' = <<>>
    /\ UNCHANGED <<store, outbox, log, clock>>

DispatchUser(oppOutcome, smtp) ==
    /\ run.pc = "loop"
    /\ run.i <= Len(run.users)
    /\ LET email == run.users[run.i]
           m == SummaryMail(email, "Your Daily Portfolio Summary",
                            holdings, goals, wishlist, oppOutcome)
       IN  /\ IF m.status = "raise"
              THEN /\ log' = Append(log, [email |-> email, error |-> m.error])
                   /\ UNCHANGED outbox
              ELSE /\ outbox' = Append(outbox, m.mail)
                   /\ log' = IF smtp = "sent" THEN log
                             ELSE Append(log, [email |-> email, error |-> smtp])
           /\ run' = AfterUser(run, m.status = "raise")
    /\ response' = [op |-> "send_daily_summaries", status |-> 0, at |-> "running"]
    /\ calls' = GenerateCalls(holdings)
    /\ UNCHANGED <<store, clock>>

DispatchFinish ==
    /\ run.pc = "loop"
    /\ run.i > Len(run.users)
    /\ run' = [run EXCEPT !.pc = "done"]
    /\ response' = [op |-> "send_daily_summaries", status |-> 0, at |-> "returned"]
    /\ calls' = <<>>
    /\ UNCHANGED <<store, outbox, log, clock>>

\* What send_summary_now answers, with its request
SendNow(status, email, oppOutcome) ==
    [op |-> "send_summary_now", status |-> status, email |-> email,
     outcome |-> oppOutcome]

\* send_summary_now for the users of the scheduled job only: a user whose
\* flag is cleared is answered like one who is not stored
send_summary_now_EnabledOnly(email, oppOutcome, smtp) ==
    /\ LET enabled == EnabledUsers(preferences)
           generated == SummaryMail(email, "Your Portfolio Summary",
                                    holdings, goals, wishlist, oppOutcome)
       IN  IF \A k \in DOMAIN enabled : enabled[k] # email
           THEN /\ response' = SendNow(404, email, oppOutcome)
                /\ UNCHANGED <<outbox, log>>
           ELSE IF generated.status = "raise"
                THEN /\ response' = SendNow(500, email, oppOutcome)
                     /\ UNCHANGED <<outbox, log>>
                ELSE /\ Len(outbox) < MaxOutbox
                     /\ outbox' = Append(outbox, generated.mail)
                     /\ log' = IF smtp = "sent" THEN log
                               ELSE Append(log, [email |-> email, error |-> smtp])
                     /\ response' = SendNow(200, email, oppOutcome)
    /\ calls' = IF email \notin UserEmails THEN <<>> ELSE GenerateCalls(holdings)
    /\ UNCHANGED <<store, run, clock>>

\* POST /api/summary/send/{email}.  An exception of generate_daily_summary
\* or of format_summary_email leaves the handler (status 500); send_email
\* runs as a background task once the answer is out.
send_summary_now(email, oppOutcome, smtp) ==
    /\ IF email \notin UserEmails
       THEN /\ response' = SendNow(404, email, oppOutcome)
            /\ UNCHANGED <<outbox, log>>
       ELSE LET summary == generate_daily_summary(holdings, goals, wishlist, oppOutcome)
            IN  IF summary.status = "raise"
                THEN /\ response' = SendNow(500, email, oppOutcome)
                     /\ UNCHANGED <<outbox, log>>
                ELSE LET email_body == format_summary_email(summary.summary)
                     IN  IF email_body.status = "raise"
                         THEN /\ response' = SendNow(500, email, oppOutcome)
                              /\ UNCHANGED <<outbox, log>>
                         ELSE /\ Len(outbox) < MaxOutbox
                              /\ outbox' = Append(outbox,
                                     [to |-> email, subject |-> "Your Portfolio Summary",
                                      body |-> email_body.body])
                              /\ log' = IF smtp = "sent" THEN log
                                        ELSE Append(log, [email |-> email, error |-> smtp])
                              /\ response' = SendNow(200, email, oppOutcome)
    /\ calls' = IF email \notin UserEmails THEN <<>> ELSE GenerateCalls(holdings)
    /\ UNCHANGED <<store, run, clock>>

---------------------------------------------------------------------------
(* The frontend (src/frontend/app.py): the valuation it makes of the       *)
(* holdings it reads from GET /api/holdings.                               *)

\* A holding as the API returns it: HoldingResponse has every field, so a
\* current price that is None is the key "current_price" with null
HoldingJson(h) ==
    JObj([id |-> JNum(h.id), name |-> JStr(h.name), symbol |-> JStr(h.symbol),
          type |-> JStr(h.type), quantity |-> JNum(h.quantity),
          avg_price |-> JNum(h.avg_price), current_price |-> h.current_price,
          recommendations |-> h.recommendations])

\* get_holdings of the frontend: response.json() of a 200, else [].  The
\* API answers 500 when a stored recommendation set is no dict
\* (HoldingResponse.recommendations is Optional[Dict]).
get_holdings(hs) ==
    IF \E i \in DOMAIN hs : hs[i].recommendations.t \notin {"null", "obj"}
    THEN <<>>
    ELSE [i \in DOMAIN hs |-> HoldingJson(hs[i])]

\* holding.get('current_price', holding['avg_price'])
FrontendPrice(holding) == Get(holding, "current_price", holding.f["avg_price"])

\* calculate_pl(holding); a float times None raises TypeError
calculate_pl(holding) ==
    LET price == FrontendPrice(holding)
        invested == holding.f["quantity"].n * holding.f["avg_price"].n
    IN  IF price.t # "num" THEN Raised("TypeError")
        ELSE LET current == holding.f["quantity"].n * price.n
                 pl == current - invested
             IN  [status |-> "ok", pl |-> pl,
                  pl_percent |-> IF invested > 0 THEN Rat(pl * 100, invested)
                                 ELSE RInt(0),
                  invested |-> invested, current |-> current]

\* The sidebar's Portfolio Summary
sidebar_total(hs) ==
    IF hs = <<>> THEN [status |-> "ok", shown |-> FALSE]
    ELSE IF \E i \in DOMAIN hs : FrontendPrice(hs[i]).t # "num"
         THEN Raised("TypeError")
         ELSE LET total_value ==
                      SumSeq([i \in DOMAIN hs |->
                                hs[i].f["quantity"].n * FrontendPrice(hs[i]).n])
                  total_invested ==
                      SumSeq([i \in DOMAIN hs |->
                                hs[i].f["quantity"].n * hs[i].f["avg_price"].n])
              IN  [status |-> "ok", shown |-> TRUE,
                   total_value |-> total_value,
                   total_invested |-> total_invested,
                   total_pl |-> total_value - total_invested,
                   total_pl_percent |->
                       IF total_invested > 0
                       THEN Rat((total_value - total_invested) * 100, total_invested)
                       ELSE RInt(0)]

\* A run of the script that draws the sidebar
Sidebar ==
    /\ response' = [op |-> "sidebar", status |-> 0,
                    result |-> sidebar_total(get_holdings(holdings))]
    /\ calls' = <<>>
    /\ UNCHANGED <<store, run, outbox, log, clock>>

\* The Portfolio page: calculate_pl for each holding, in order
PortfolioPage ==
    /\ LET hs == get_holdings(holdings)
           rows == [i \in DOMAIN hs |-> calculate_pl(hs[i])]
       IN  response' = [op |-> "portfolio_page", status |-> 0,
                        result |-> IF \E i \in DOMAIN rows : rows[i].status = "raise"
                                   THEN Raised("TypeError")
                                   ELSE [status |-> "ok", rows |-> rows]]
    /\ calls' = <<>>
    /\ UNCHANGED <<store, run, outbox, log, clock>>

---------------------------------------------------------------------------
(* Specifications.  Next is every handler with every request; each other   *)
(* specification keeps the handlers and requests one group of properties   *)
(* is about, so each of its behaviours is a behaviour of Spec.             *)

Next ==
    \/ \E req \in HoldingRequests, live \in LivePrices : create_holding(req, live)
    \/ \E id \in Candidates(holdings), live \in LivePrices : update_holding_price(id, live)
    \/ \E id \in Candidates(holdings), live \in LivePrices, reply \in AnalysisReplies :
            analyze_holding(id, live, reply)
    \/ \E id \in Candidates(holdings) : get_holding(id)
    \/ \E email \in Emails : get_preferences(email)
    \/ \E id \in Candidates(holdings) : delete_holding(id)
    \/ \E req \in WishlistRequests : create_wishlist_item(req)
    \/ \E id \in Candidates(wishlist) : delete_wishlist_item(id)
    \/ \E req \in GoalRequests : create_goal(req)
    \/ \E id \in Candidates(goals) : delete_goal(id)
    \/ \E prefs \in PreferenceRequests : update_preferences(prefs)
    \/ \E email \in Emails, oppOutcome \in OppOutcomes : get_daily_summary(email, oppOutcome)
    \/ \E email \in Emails, oppOutcome \in OppOutcomes, smtp \in SmtpOutcomes :
            send_summary_now(email, oppOutcome, smtp)
    \/ \E lives \in [DOMAIN holdings -> LivePrices] : batch_update_prices(lives)
    \/ \E replies \in [DOMAIN holdings -> AnalysisReplies] : batch_analyze_all(replies)
    \/ DispatchStart
    \/ \E oppOutcome \in OppOutcomes, smtp \in SmtpOutcomes : DispatchUser(oppOutcome, smtp)
    \/ DispatchFinish
    \/ Sidebar
    \/ PortfolioPage

Spec == Init /\ [][Next]_vars

OneUser == {PreferenceRequest("a@x.in", TRUE)}
TwoEmails == {"a@x.in", "b@x.in"}
TwoOutcomes == {OppFailure, JList(<<Opp("WIPRO"), Opp("HCL")>>)}

\* Valuation: holdings with every kind of price, and the summary
NextValuation ==
    \/ \E req \in HoldingRequests, live \in LivePrices : create_holding(req, live)
    \/ \E id \in Candidates(holdings), live \in LivePrices : update_holding_price(id, live)
    \/ \E id \in Candidates(holdings) : delete_holding(id)
    \/ \E prefs \in OneUser : update_preferences(prefs)
    \/ \E email \in TwoEmails, oppOutcome \in TwoOutcomes :
            get_daily_summary(email, oppOutcome)

SpecValuation == Init /\ [][NextValuation]_vars

AdviceRequests ==
    { HoldingRequest("Tata Consultancy", "TCS", 2, 3, JNull),
      HoldingRequest("Infosys", "INFY", 1, 2, JNum(1)) }

\* Advice: holdings with every kind of stored recommendation set, and the summary
NextAdvice ==
    \/ \E req \in AdviceRequests : create_holding(req, JNull)
    \/ \E id \in Candidates(holdings), reply \in AnalysisReplies :
            analyze_holding(id, JNull, reply)
    \/ \E id \in Candidates(holdings) : delete_holding(id)
    \/ \E prefs \in OneUser : update_preferences(prefs)
    \/ \E email \in TwoEmails, oppOutcome \in TwoOutcomes :
            get_daily_summary(email, oppOutcome)

SpecAdvice == Init /\ [][NextAdvice]_vars

\* Lists: the wishlist, the goals, every outcome of the opportunity request
NextLists ==
    \/ \E req \in WishlistRequests : create_wishlist_item(req)
    \/ \E id \in Candidates(wishlist) : delete_wishlist_item(id)
    \/ \E req \in GoalRequests : create_goal(req)
    \/ \E id \in Candidates(goals) : delete_goal(id)
    \/ \E prefs \in OneUser : update_preferences(prefs)
    \/ \E email \in TwoEmails, oppOutcome \in OppOutcomes :
            get_daily_summary(email, oppOutcome)

SpecLists == Init /\ [][NextLists]_vars

DispatchOutcomes ==
    { OppFailure,
      JList(<<Opp("WIPRO"), Opp("HCL")>>),
      JList(<<JObj([name |-> JStr("WIPRO")])>>),
      JObj([stocks |-> JList(<<Opp("WIPRO")>>)]) }

\* Dispatch: the users and one run of the job
NextDispatch ==
    \/ \E prefs \in PreferenceRequests : update_preferences(prefs)
    \/ DispatchStart
    \/ \E oppOutcome \in DispatchOutcomes, smtp \in SmtpOutcomes :
            DispatchUser(oppOutcome, smtp)
    \/ DispatchFinish

SpecDispatch == Init /\ [][NextDispatch]_vars

RefreshRequests ==
    { HoldingRequest("Tata Consultancy", "TCS", 2, 3, JNull),
      HoldingRequest("Infosys", "INFY", 1, 2, JNum(1)) }

RefreshPrices == {JNull, JNum(4)}

RefreshReplies ==
    { JNull,
      RecSet(Horizons, "SELL", "overvalued"),
      RecSet({"1m"}, "BUY", "undervalued") }

\* Refresh: the holdings, their prices and recommendation sets, one by one
\* and in batches
NextRefresh ==
    \/ \E req \in RefreshRequests : create_holding(req, JNull)
    \/ \E id \in Candidates(holdings), live \in RefreshPrices :
            update_holding_price(id, live)
    \/ \E id \in Candidates(holdings), live \in RefreshPrices, reply \in RefreshReplies :
            analyze_holding(id, live, reply)
    \/ \E lives \in [DOMAIN holdings -> RefreshPrices] : batch_update_prices(lives)
    \/ \E replies \in [DOMAIN holdings -> RefreshReplies] : batch_analyze_all(replies)
    \/ \E id \in Candidates(holdings) : delete_holding(id)

SpecRefresh == Init /\ [][NextRefresh]_vars

ProfileRequests ==
    [email : TwoEmails, notification_time : {"08:00", "18:30"},
     risk_profile : {"moderate", "aggressive"},
     preferred_sectors : {<<>>, <<"IT">>},
     daily_summary_enabled : BOOLEAN]

\* Preferences: saves with every field varied
NextPreferences == \E prefs \in ProfileRequests : update_preferences(prefs)

SpecPreferences == Init /\ [][NextPreferences]_vars

\* Lookup: every handler that takes an identifier or an email, on stores
\* of at most one row per table
NextLookup ==
    \/ holdings = <<>> /\ create_holding(HoldingRequest("Infosys", "INFY", 1, 2, JNum(1)), JNull)
    \/ wishlist = <<>> /\ create_wishlist_item(WishlistRequest("Wipro", "WIPRO", 5, 6))
    \/ goals = <<>> /\ create_goal(GoalRequest("House", 1000, 250))
    \/ update_preferences(PreferenceRequest("a@x.in", FALSE))
    \/ \E id \in Candidates(holdings) : get_holding(id)
    \/ \E id \in Candidates(holdings) : update_holding_price(id, JNum(4))
    \/ \E id \in Candidates(holdings),
          reply \in {JNull, RecSet(Horizons, "SELL", "overvalued")} :
            analyze_holding(id, JNull, reply)
    \/ \E id \in Candidates(holdings) : delete_holding(id)
    \/ \E id \in Candidates(wishlist) : delete_wishlist_item(id)
    \/ \E id \in Candidates(goals) : delete_goal(id)
    \/ \E email \in TwoEmails : get_preferences(email)
    \/ \E email \in TwoEmails : get_daily_summary(email, OppFailure)
    \/ \E email \in TwoEmails : outbox = <<>> /\ send_summary_now(email, OppFailure, "sent")

SpecLookup == Init /\ [][NextLookup]_vars

ValidationHoldings ==
    { HoldingRequest("Tata Consultancy", "TCS", 2, 3, JNull),
      HoldingRequest("Infosys", "INFY", -1, 2, JNum(1)),
      HoldingRequest("Infosys", "INFY", 1, -2, JNum(-5)),
      [HoldingRequest("Gilt", "GILT", 1, 2, JNum(1)) EXCEPT !.type = "bond"] }

ValidationGoals ==
    { GoalRequest("House", 1000, 250),
      GoalRequest("Car", 0, 50),
      GoalRequest("Debt", -100, -5),
      [GoalRequest("Trip", 300, 400) EXCEPT !.priority = "urgent"] }

\* Validation: requests inside and outside the constraints of the request
\* models and the ranges of the data model
NextValidation ==
    \/ \E req \in ValidationHoldings : create_holding(req, JNull)
    \/ \E id \in Candidates(holdings) : delete_holding(id)
    \/ \E req \in ValidationGoals : create_goal(req)
    \/ \E id \in Candidates(goals) : delete_goal(id)

SpecValidation == Init /\ [][NextValidation]_vars

\* Frontend: holdings with every kind of price, and the two valuations
NextFrontend ==
    \/ \E req \in HoldingRequests, live \in RefreshPrices : create_holding(req, live)
    \/ \E id \in Candidates(holdings) : delete_holding(id)
    \/ Sidebar
    \/ PortfolioPage

SpecFrontend == Init /\ [][NextFrontend]_vars

\* Batch refresh: holdings, and batches with every outcome of the fetch
NextBatchPrices ==
    \/ \E req \in RefreshRequests : create_holding(req, JNull)
    \/ \E lives \in [DOMAIN holdings -> LivePrices] : batch_update_prices(lives)
    \/ \E id \in Candidates(holdings) : delete_holding(id)

SpecBatchPrices == Init /\ [][NextBatchPrices]_vars

SendNowUsers == {PreferenceRequest(e, on) : e \in TwoEmails, on \in BOOLEAN}

\* Sending now: a wishlist, users with the flag set or cleared, the request
NextSendNow ==
    \/ \E req \in {WishlistRequest("Wipro", "WIPRO", 5, 6)} : create_wishlist_item(req)
    \/ \E prefs \in SendNowUsers : update_preferences(prefs)
    \/ \E email \in Emails, oppOutcome \in DispatchOutcomes,
          smtp \in {"sent", "smtp_error"} :
            send_summary_now(email, oppOutcome, smtp)

SpecSendNow == Init /\ [][NextSendNow]_vars

\* Rendering: format_summary_email applied to a DailySummary
SummaryInputs ==
    { [portfolio_value |-> pv,
       daily_change |-> DailyChange(pv),
       daily_change_percent |-> DailyChangePercent(pv),
       action_items |-> sections.action_items,
       new_opportunities |-> sections.new_opportunities,
       watchlist_alerts |-> sections.watchlist_alerts,
       news_digest |-> sections.news_digest,
       goal_progress |-> sections.goal_progress] :
      pv \in {0, 1200},
      sections \in
        [action_items :
            {<<>>, <<[type |-> "SELL", symbol |-> "TCS", name |-> "Tata Consultancy",
                      reason |-> JStr("overvalued")]>>},
         new_opportunities :
            {<<>>, <<Opp("WIPRO")>>, <<Opp("WIPRO"), Opp("HCL")>>,
             <<JObj([name |-> JStr("WIPRO")])>>},
         watchlist_alerts :
            {<<>>, <<WatchlistAlert(WishlistRequest("Wipro", "WIPRO", 5, 6))>>},
         news_digest :
            {<<>>, <<NewsItem>>, <<NewsItem, NewsItem, NewsItem, NewsItem>>},
         goal_progress :
            {<<>>, <<[name |-> "House", progress |-> Rat(25, 1),
                      current |-> 250, target |-> 1000]>>}] }

InitRender ==
    /\ holdings = <<>>
    /\ wishlist = <<>>
    /\ goals = <<>>
    /\ preferences = <<>>
    /\ price_history = <<>>
    /\ run = Idle
    /\ outbox = <<>>
    /\ log = <<>>
    /\ clock = 0
    /\ calls = <<>>
    /\ \E s \in SummaryInputs :
          response = [op |-> "DailySummary", status |-> 0, summary |-> s]

Render ==
    /\ response.op = "DailySummary"
    /\ response' = [op |-> "format_summary_email", status |-> 0,
                    summary |-> response.summary,
                    result |-> format_summary_email(response.summary)]
    /\ calls' = <<>>
    /\ UNCHANGED <<store, run, outbox, log, clock>>

NextRender == Render

SpecRender == InitRender /\ [][NextRender]_vars

---------------------------------------------------------------------------
(* Properties *)

\* The last request was a summary request for a stored user
Summarised == response.op = "get_daily_summary" /\ response.status # 404

\* ... and generate_daily_summary returned a report
Reported == Summarised /\ response.result.status = "ok"

Report == response.result.summary

IsPrefix(a, b) == Len(a) <= Len(b) /\ \A i \in DOMAIN a : a[i] = b[i]

\* The current price when one is stored, whatever its value, else the average cost
PresentPrice(h) ==
    IF h.current_price # JNull THEN h.current_price.n ELSE h.avg_price

\* C1: the reported portfolio value is the sum over all holdings of
\* quantity x effective price, the effective price being the stored current
\* price whenever it is not null (0 included) and the average cost otherwise.
C1_PortfolioValueUsesPresentPrice ==
    Reported =>
        Report.portfolio_value =
            SumSeq([i \in DOMAIN holdings |->
                      holdings[i].quantity * PresentPrice(holdings[i])])

\* The action of a holding's 1-month bucket, "none" when it has none
OneMonthAction(h) ==
    LET recs == h.recommendations
    IN  IF recs.t = "obj" /\ "1m" \in DOMAIN recs.f
        THEN LET bucket == recs.f["1m"]
             IN  IF bucket.t = "obj" /\ "action" \in DOMAIN bucket.f
                    /\ bucket.f["action"].t = "str"
                 THEN bucket.f["action"].s
                 ELSE "none"
        ELSE "none"

Acting == SelectSeq(holdings, LAMBDA h : OneMonthAction(h) \in {"SELL", "BUY"})

\* C2: the action items are, in the order of the holdings, one SELL item for
\* each holding whose 1-month action is SELL and one BUY_MORE item for each
\* whose 1-month action is BUY, with the bucket's reason text; a holding with
\* HOLD, without a 1-month bucket or without a recommendation set has none.
C2_ActionItemsFollowOneMonthBucket ==
    Reported =>
        /\ Len(Report.action_items) = Len(Acting)
        /\ \A k \in DOMAIN Acting :
              LET item == Report.action_items[k]
                  bucket == Acting[k].recommendations.f["1m"]
              IN  /\ item.type = IF OneMonthAction(Acting[k]) = "SELL"
                                 THEN "SELL" ELSE "BUY_MORE"
                  /\ item.symbol = Acting[k].symbol
                  /\ item.name = Acting[k].name
                  /\ "reason" \in DOMAIN bucket.f => item.reason = bucket.f["reason"]

C2_Witness ==
    /\ Reported
    /\ Len(holdings) = 2
    /\ OneMonthAction(holdings[1]) = "BUY"
    /\ OneMonthAction(holdings[2]) = "SELL"
    /\ Len(Report.action_items) = 2
    /\ Report.action_items[1].type = "BUY_MORE"
    /\ Report.action_items[2].reason = JStr("overvalued")

AlertOf(item) ==
    [symbol |-> item.symbol, name |-> item.name,
     current_price |-> item.current_price, target_price |-> item.target_price]

AtOrBelowTarget == {i \in DOMAIN wishlist :
                      wishlist[i].current_price <= wishlist[i].target_price}

\* C3: a wishlist item has an alert exactly when its current price is at or
\* below its target price; the alert carries its name, ticker and both
\* prices, and every alert is the alert of a wishlist item.
C3_AlertIffAtOrBelowTarget ==
    Reported =>
        LET alerts == Report.watchlist_alerts
        IN  /\ \A i \in DOMAIN wishlist :
                  (i \in AtOrBelowTarget) <=>
                  (\E j \in DOMAIN alerts : alerts[j] = AlertOf(wishlist[i]))
            /\ \A j \in DOMAIN alerts :
                  \E i \in AtOrBelowTarget : alerts[j] = AlertOf(wishlist[i])
            /\ Len(alerts) = Cardinality(AtOrBelowTarget)

C3_Witness ==
    /\ Reported
    /\ Len(wishlist) = 2
    /\ wishlist[1].current_price > wishlist[1].target_price
    /\ wishlist[2].current_price = wishlist[2].target_price
    /\ Report.watchlist_alerts = <<AlertOf(wishlist[2])>>

\* C4: there is one goal_progress entry per stored goal, in order; its
\* progress is current / target x 100 when the target is above 0 and 0 when
\* the target is 0.
C4_GoalProgressPerGoal ==
    Reported =>
        /\ Len(Report.goal_progress) = Len(goals)
        /\ \A i \in DOMAIN goals :
              LET entry == Report.goal_progress[i]
              IN  /\ entry.name = goals[i].name
                  /\ entry.current = goals[i].current_amount
                  /\ entry.target = goals[i].target_amount
                  /\ entry.progress.den > 0
                  /\ goals[i].target_amount > 0 =>
                        entry.progress.num * goals[i].target_amount
                            = 100 * goals[i].current_amount * entry.progress.den
                  /\ goals[i].target_amount = 0 => entry.progress.num = 0

C4_Witness ==
    /\ Reported
    /\ Len(goals) = 2
    /\ goals[1].target_amount = 0 /\ goals[1].current_amount > 0
    /\ goals[2].target_amount > 0
    /\ Report.goal_progress[1].progress = RInt(0)
    /\ Report.goal_progress[2].progress = RInt(25)

\* The opportunity request failed: an exception, or a reply that is no list of records
GatewayFailed(outcome) == outcome = OppFailure \/ ~IsListOfDict(outcome)

\* C5: whatever the opportunity request ends in (an exception, or a decoded
\* reply that is not a list of records), the summary is returned, with an
\* empty opportunities section in that case and the other sections as they
\* are when the request succeeds.
C5_GatewayFailureGivesEmptySection ==
    Summarised /\ GatewayFailed(response.outcome) =>
        /\ response.result.status = "ok"
        /\ Report.new_opportunities = <<>>
        /\ LET good == generate_daily_summary(holdings, goals, wishlist, JList(<<>>)).summary
           IN  /\ Report.portfolio_value = good.portfolio_value
               /\ Report.action_items = good.action_items
               /\ Report.watchlist_alerts = good.watchlist_alerts
               /\ Report.goal_progress = good.goal_progress

\* C6: the report holds at most 3 opportunities and at most 5 news items,
\* each list a prefix of what its gateway returned.
C6_SectionsAreBoundedPrefixes ==
    Reported =>
        /\ Len(Report.new_opportunities) <= 3
        /\ Len(Report.news_digest) <= 5
        /\ IsPrefix(Report.new_opportunities,
                    IF response.outcome = OppFailure THEN <<>>
                    ELSE response.outcome.xs)
        /\ IsPrefix(Report.news_digest, fetch_market_news.xs)

C6_Witness ==
    /\ Reported
    /\ response.outcome # OppFailure
    /\ Len(response.outcome.xs) = 4
    /\ Len(Report.new_opportunities) = 3
    /\ Report.new_opportunities[3] = response.outcome.xs[3]

RaiseErrors == {"AttributeError", "TypeError", "ValidationError", "KeyError"}

Mailed(email) == \E j \in DOMAIN outbox : outbox[j].to = email

Recorded(email) ==
    \E j \in DOMAIN log : log[j].email = email /\ log[j].error \in RaiseErrors

\* C7: in a run of the job a failure at one user is caught and recorded and
\* never leaves the loop: every user before the loop's position has either
\* a message handed to send_email or a recorded exception, and the run ends
\* only after the last user.
C7_FailureOfOneUserIsIsolated ==
    /\ run.pc \in {"idle", "loop", "done"}
    /\ run.pc \in {"loop", "done"} =>
          /\ run.i \in 1..(Len(run.users) + 1)
          /\ \A k \in 1..(run.i - 1) :
                Mailed(run.users[k]) # Recorded(run.users[k])
          /\ \A k \in run.i..Len(run.users) :
                ~Mailed(run.users[k]) /\ ~Recorded(run.users[k])
    /\ run.pc = "done" => run.i = Len(run.users) + 1

C7_Witness ==
    /\ run.pc = "done"
    /\ Len(run.users) = 2
    /\ Recorded(run.users[1]) /\ ~Mailed(run.users[1])
    /\ Mailed(run.users[2]) /\ ~Recorded(run.users[2])

\* C8: for every store the handlers can produce, a summary request whose
\* opportunity request ends well is answered with a report.
C8_SummaryNeverRaisesOnStoredData ==
    Summarised /\ IsListOfDict(generate_new_opportunities(response.outcome))
        => response.result.status = "ok"

SectionHeaders ==
    << "Portfolio Overview", "Action Items", "New Opportunities",
       "Watchlist Alerts", "Market News", "Goal Progress" >>

HeadersOf(body) ==
    LET hs == SelectSeq(body, LAMBDA e : e.k = "h2")
    IN  [i \in DOMAIN hs |-> hs[i].text]

\* The element right after the header of that text is a placeholder
PlaceholderUnder(body, header) ==
    \E i \in DOMAIN body :
        /\ body[i] = Text("h2", header)
        /\ i < Len(body)
        /\ body[i + 1].k = "p"

Rendered == response.op = "format_summary_email" /\ response.result.status = "ok"

C10_NoBaselineGivesZeroChange ==
    Reported /\ price_history = <<>> =>
        /\ Report.daily_change = RInt(0)
        /\ Report.daily_change_percent = RInt(0)


DailySubject == "Your Daily Portfolio Summary"

\* How often the job got to the end of its work on that user: the messages
\* it handed to send_email and the exceptions its except clause printed
Attempts(email) ==
    Cardinality({j \in DOMAIN outbox :
                    outbox[j].to = email /\ outbox[j].subject = DailySubject})
    + Cardinality({j \in DOMAIN log :
                    log[j].email = email /\ log[j].error \in RaiseErrors})

FlagSet == {preferences[i].email : i \in {j \in DOMAIN preferences :
                                             preferences[j].daily_summary_enabled}}

AttemptedOnce ==
    /\ run.pc = "idle" => \A e \in Emails : Attempts(e) = 0
    /\ run.pc \in {"loop", "done"} =>
          /\ \A k, l \in DOMAIN run.users : run.users[k] = run.users[l] => k = l
          /\ \A k \in DOMAIN run.users :
                Attempts(run.users[k]) = IF k < run.i THEN 1 ELSE 0
          /\ \A e \in Emails :
                (\A k \in DOMAIN run.users : run.users[k] # e) => Attempts(e) = 0

LoadsFlagged ==
    run.pc = "idle" /\ run'.pc = "loop" =>
        {run'.users[k] : k \in DOMAIN run'.users} = FlagSet

\* C11: one run of the job loads exactly the users whose flag is set when it
\* starts, and has attempted each of them once when the loop has passed it,
\* never twice, and no other user at all.
C11_EachEnabledUserAttemptedOnce == []AttemptedOnce /\ [][LoadsFlagged]_vars

C11_Witness ==
    /\ run.pc = "done"
    /\ Len(run.users) = 1
    /\ Attempts(run.users[1]) = 1
    /\ \E i \in DOMAIN preferences :
          /\ ~preferences[i].daily_summary_enabled
          /\ preferences[i].email # run.users[1]
          /\ Attempts(preferences[i].email) = 0


\* The last request was a send-now request for a stored user for whom the
\* scheduled job, on this store and with this reply of the opportunity
\* request, has a message
SentNow ==
    /\ response.op = "send_summary_now"
    /\ response.email \in UserEmails
    /\ SummaryMail(response.email, DailySubject, holdings, goals, wishlist,
                   response.outcome).status = "ok"

\* C12: send_summary_now hands send_email, for a stored user with the flag
\* set or cleared, a message to that user whose body is the body of the
\* message the scheduled job makes on the same store and gateway reply.
C12_SendNowBodyIsTheDailyBody ==
    SentNow =>
        /\ response.status = 200
        /\ outbox # <<>>
        /\ outbox[Len(outbox)].to = response.email
        /\ outbox[Len(outbox)].body =
              SummaryMail(response.email, DailySubject, holdings, goals, wishlist,
                          response.outcome).mail.body

C12_Witness ==
    /\ SentNow
    /\ \E i \in DOMAIN preferences :
          /\ preferences[i].email = response.email
          /\ ~preferences[i].daily_summary_enabled
    /\ wishlist # <<>>
    /\ response.outcome = JList(<<Opp("WIPRO"), Opp("HCL")>>)
    /\ outbox[Len(outbox)].subject = "Your Portfolio Summary"
    /\ Len(outbox[Len(outbox)].body) > 6


SummaryKeepsStore == response'.op = "get_daily_summary" => store' = store

\* C13: a summary request, answered with a report or with an error, leaves
\* the holdings, the wishlist, the goals, the preferences and the price
\* history as they were; what the gateways returned is in the report only.
C13_SummaryIsReadOnly == [][SummaryKeepsStore]_vars

C13_Witness ==
    /\ Reported
    /\ wishlist # <<>>
    /\ goals # <<>>
    /\ Len(Report.new_opportunities) = 2
    /\ Report.news_digest # <<>>
    /\ \A i \in DOMAIN wishlist : wishlist[i].symbol \in {"WIPRO", "HCL", "LT"}


\* The step is an analysis of a stored holding whose gateway request failed
AnalysisFailed ==
    /\ response'.op = "analyze_holding"
    /\ response'.status # 404
    /\ response'.recommendations = JNull

FailedAnalysisKeepsHolding ==
    AnalysisFailed => response'.status = 500 /\ store' = store

\* C14: an analysis whose gateway request fails is answered with an error
\* and leaves the stored holding as it was: its recommendation set, its
\* current price and its last_updated are those of before the request, also
\* when the price fetch of the request had returned a price.
C14_FailedAnalysisChangesNothing == [][FailedAnalysisKeepsHolding]_vars

C14_Witness ==
    /\ response.op = "analyze_holding"
    /\ response.status = 500
    /\ response.fetched = JNum(4)
    /\ \E i \in DOMAIN holdings :
          /\ holdings[i].id = response.id
          /\ holdings[i].current_price # JNum(4)
          /\ holdings[i].recommendations # JNull
          /\ holdings[i].last_updated < clock


Actions == {"BUY", "HOLD", "SELL"}

\* A bucket of the requested format: an action of the three and a reason text
IsBucket(v) ==
    /\ v.t = "obj"
    /\ DOMAIN v.f = {"action", "reason"}
    /\ v.f["action"].t = "str" /\ v.f["action"].s \in Actions
    /\ v.f["reason"].t = "str"

\* A recommendation set: horizons mapped to buckets
IsRecommendationSet(v) ==
    /\ v.t = "obj"
    /\ DOMAIN v.f \subseteq Horizons
    /\ \A k \in DOMAIN v.f : IsBucket(v.f[k])

\* C15: a holding's stored recommendation set is absent or maps horizons to
\* buckets with an action in {BUY, HOLD, SELL} and a reason text; a reply
\* of any other shape is never stored.
C15_StoredRecommendationsMatchSchema ==
    \A i \in DOMAIN holdings :
        \/ holdings[i].recommendations = JNull
        \/ IsRecommendationSet(holdings[i].recommendations)


\* The history after the step is the history before it and one new entry,
\* of that ticker and price
OneEntryMore(symbol, price) ==
    /\ Len(price_history') = Len(price_history) + 1
    /\ IsPrefix(price_history, price_history')
    /\ price_history'[Len(price_history')].symbol = symbol
    /\ price_history'[Len(price_history')].price = price

SymbolOf(id) == Find(holdings', id).symbol

StoredPriceIsRecorded ==
    /\ response'.op = "update_holding_price" =>
          IF response'.status = 200
          THEN OneEntryMore(SymbolOf(response'.id), response'.price)
          ELSE price_history' = price_history
    /\ response'.op = "analyze_holding" /\ response'.status # 404 =>
          IF response'.status = 200 /\ Truthy(response'.fetched)
          THEN OneEntryMore(SymbolOf(response'.id), response'.fetched.n)
          ELSE price_history' = price_history
    /\ response'.op = "batch_update_prices" =>
          /\ Len(price_history') = Len(price_history) + response'.updated
          /\ IsPrefix(price_history, price_history')

\* C16: a price refresh, an analysis and a batch refresh add one history
\* entry, of the holding's ticker and of the fetched price, for each
\* fetched price they store, and none when the fetch fails.
C16_EveryStoredPriceIsRecorded == [][StoredPriceIsRecorded]_vars


\* C17: every step leaves the entries of the price history in place, with
\* their ticker, price and timestamp, and at most adds entries after them;
\* deleting a holding removes none of the entries of its ticker.
C17_PriceHistoryIsAppendOnly == [][IsPrefix(price_history, price_history')]_vars

C17_Witness ==
    /\ response.op = "delete_holding"
    /\ response.status = 200
    /\ Len(price_history) = 2
    /\ price_history[1].symbol = price_history[2].symbol
    /\ price_history[1].timestamp < price_history[2].timestamp
    /\ \A i \in DOMAIN holdings : holdings[i].symbol # price_history[1].symbol


RefreshOps == {"update_holding_price", "batch_update_prices"}
AnalysisOps == {"analyze_holding", "batch_analyze_all"}

\* The fields a holding is created with
Business(h) ==
    [id |-> h.id, name |-> h.name, symbol |-> h.symbol, type |-> h.type,
     quantity |-> h.quantity, avg_price |-> h.avg_price]

RefreshKeepsBusinessFields ==
    /\ response'.op \in RefreshOps \cup AnalysisOps =>
          /\ Len(holdings') = Len(holdings)
          /\ \A i \in DOMAIN holdings : Business(holdings'[i]) = Business(holdings[i])
    /\ response'.op \in RefreshOps =>
          \A i \in DOMAIN holdings :
              holdings'[i].recommendations = holdings[i].recommendations

\* C18: a price refresh, a batch refresh, an analysis and a batch analysis
\* leave every holding's name, ticker, kind, quantity and average cost as
\* they were; a price refresh leaves the recommendation set as well.
C18_RefreshKeepsQuantityAndCost == [][RefreshKeepsBusinessFields]_vars

C18_Witness ==
    /\ response.op = "batch_update_prices"
    /\ response.updated = 1
    /\ Len(holdings) = 2
    /\ holdings[1].current_price = JNull
    /\ holdings[2].current_price = JNum(4)
    /\ holdings[2].avg_price = 2
    /\ holdings[2].quantity = 1
    /\ holdings[2].last_updated = clock


\* The submitted fields of a stored preference record
Profile(r) ==
    [email |-> r.email, notification_time |-> r.notification_time,
     risk_profile |-> r.risk_profile, preferred_sectors |-> r.preferred_sectors,
     daily_summary_enabled |-> r.daily_summary_enabled]

OneRecordPerEmail ==
    \A i, j \in DOMAIN preferences :
        preferences[i].email = preferences[j].email => i = j

SaveIsUpsert ==
    response'.op = "update_preferences" =>
        LET p == response'.preferences
        IN  IF p.email \in UserEmails
            THEN /\ Len(preferences') = Len(preferences)
                 /\ \A i \in DOMAIN preferences :
                       IF preferences[i].email = p.email
                       THEN /\ Profile(preferences'[i]) = p
                            /\ preferences'[i].id = preferences[i].id
                       ELSE preferences'[i] = preferences[i]
            ELSE /\ Len(preferences') = Len(preferences) + 1
                 /\ IsPrefix(preferences, preferences')
                 /\ Profile(preferences'[Len(preferences')]) = p

\* C19: the store has at most one preference record per email; a save for
\* a new email adds a record with the submitted values, a save for a stored
\* email writes the submitted values over that record, and the records of
\* the other emails stay as they were.
C19_PreferencesAreUpserted == []OneRecordPerEmail /\ [][SaveIsUpsert]_vars

C19_Witness ==
    /\ response.op = "update_preferences"
    /\ response.detail = "updated"
    /\ Len(preferences) = 2
    /\ Profile(preferences[1]) = response.preferences
    /\ preferences[1].risk_profile = "aggressive"
    /\ preferences[1].preferred_sectors = <<"IT">>
    /\ ~preferences[1].daily_summary_enabled
    /\ preferences[2].risk_profile = "moderate"
    /\ preferences[2].notification_time = "18:30"


AnalysisReplacesSet ==
    /\ response'.op = "analyze_holding" /\ response'.status = 200 =>
          /\ Len(holdings') = Len(holdings)
          /\ \A i \in DOMAIN holdings :
                holdings'[i].recommendations =
                    IF holdings[i].id = response'.id
                    THEN response'.recommendations
                    ELSE holdings[i].recommendations
    /\ response'.op = "batch_analyze_all" =>
          /\ Len(holdings') = Len(holdings)
          /\ \A i \in DOMAIN holdings :
                holdings'[i].recommendations =
                    IF Truthy(response'.recommendations[i])
                    THEN response'.recommendations[i]
                    ELSE holdings[i].recommendations

\* C20: after a successful analysis the holding's recommendation set is the
\* reply of that gateway request and nothing else, whatever set it had
\* before, and the sets of the other holdings are as they were; in a batch
\* each holding with a reply has that reply as its set.
C20_AnalysisReplacesTheSet == [][AnalysisReplacesSet]_vars

C20_Witness ==
    /\ response.op = "analyze_holding"
    /\ response.status = 200
    /\ response.recommendations = RecSet({"1m"}, "BUY", "undervalued")
    /\ price_history = <<>>
    /\ Len(holdings) = 2
    /\ holdings[1].id = 1 /\ holdings[2].id = 2
    /\ holdings[2].last_updated = 2
    /\ holdings[2].recommendations = JNull
    /\ holdings[1].last_updated = 4
    /\ DOMAIN holdings[1].recommendations.f = {"1m"}


\* The step answers not-found, changes no table, calls no gateway and hands
\* nothing to send_email
Rejected ==
    /\ response'.status = 404
    /\ store' = store
    /\ calls' = <<>>
    /\ outbox' = outbox
    /\ log' = log

Missing(rows) == Candidates(rows) \ Ids(rows)

LookupMissIsRejected ==
    /\ \A id \in Missing(holdings) :
          /\ get_holding(id) => Rejected
          /\ \A live \in LivePrices : update_holding_price(id, live) => Rejected
          /\ \A live \in LivePrices, reply \in AnalysisReplies :
                analyze_holding(id, live, reply) => Rejected
          /\ delete_holding(id) => Rejected
    /\ \A id \in Missing(wishlist) : delete_wishlist_item(id) => Rejected
    /\ \A id \in Missing(goals) : delete_goal(id) => Rejected
    /\ \A email \in Emails \ UserEmails :
          /\ get_preferences(email) => Rejected
          /\ \A oppOutcome \in OppOutcomes :
                get_daily_summary(email, oppOutcome) => Rejected
          /\ \A oppOutcome \in OppOutcomes, smtp \in SmtpOutcomes :
                send_summary_now(email, oppOutcome, smtp) => Rejected

\* C21: a request that names a holding, a wishlist item, a goal or a user
\* that is not stored is answered 404, and the step changes no table, makes
\* no gateway call and sends no mail.
C21_UnknownKeyIsRejected == [][LookupMissIsRejected]_vars

C21_Witness ==
    /\ response = Reply("send_summary_now", 404) @@ [email |-> "b@x.in", outcome |-> OppFailure]
    /\ holdings # <<>>
    /\ wishlist # <<>>
    /\ goals # <<>>
    /\ UserEmails = {"a@x.in"}
    /\ calls = <<>>
    /\ outbox = <<>>


\* C22: every stored holding has a quantity and an average cost of 0 or
\* more and a current price that is absent or 0 or more; a request with a
\* negative one of them leaves no row behind.
C22_HoldingsAreInRange ==
    \A i \in DOMAIN holdings :
        /\ holdings[i].quantity >= 0
        /\ holdings[i].avg_price >= 0
        /\ holdings[i].current_price = JNull \/ holdings[i].current_price.n >= 0

\* C23: every stored goal has a target amount above 0 and a current amount
\* of 0 or more; a request outside these ranges leaves no row behind.
C23_GoalsAreInRange ==
    \A i \in DOMAIN goals :
        /\ goals[i].target_amount > 0
        /\ goals[i].current_amount >= 0


Batched == response.op = "batch_analyze_all"

\* The positions of the gateway requests in the calls of the last handler
Requests == {j \in DOMAIN calls : calls[j].to = "get_claude_analysis"}

\* C24: in a batch analysis every gateway request is followed at once by
\* the wait, whether its reply was usable or not, so a wait lies between any
\* two requests of the batch.
C24_WaitAfterEveryGatewayRequest ==
    Batched =>
        /\ \A j \in Requests : j < Len(calls) /\ calls[j + 1] = Sleep
        /\ \A j, k \in Requests :
              j < k => \E w \in (j + 1)..(k - 1) : calls[w] = Sleep

C24_Witness ==
    /\ Batched
    /\ Len(holdings) = 2
    /\ response.recommendations[1] = JNull
    /\ Truthy(response.recommendations[2])
    /\ calls = <<AnalysisCall(holdings[1].symbol), Sleep,
                 AnalysisCall(holdings[2].symbol), Sleep>>


\* The sections of a report that come from the store
StoreSections(summary) ==
    [portfolio_value |-> summary.portfolio_value,
     action_items |-> summary.action_items,
     watchlist_alerts |-> summary.watchlist_alerts,
     goal_progress |-> summary.goal_progress]

\* The step is a summary request answered with a report, right after a
\* summary request answered with a report
Rerun ==
    /\ Reported
    /\ response'.op = "get_daily_summary"
    /\ response'.status = 200
    /\ store' = store

RerunGivesSame ==
    Rerun =>
        /\ StoreSections(response'.result.summary) = StoreSections(Report)
        /\ \A j \in DOMAIN Report.watchlist_alerts :
              \E k \in DOMAIN response'.result.summary.watchlist_alerts :
                  response'.result.summary.watchlist_alerts[k] = Report.watchlist_alerts[j]

C26_FrontendValuesLikeTheSummary ==
    /\ response.op = "sidebar" /\ holdings # <<>> =>
          /\ response.result.status = "ok"
          /\ response.result.total_value = PortfolioValue(holdings)
    /\ response.op = "portfolio_page" =>
          /\ response.result.status = "ok"
          /\ \A i \in DOMAIN holdings :
                LET row == response.result.rows[i]
                IN  /\ row.current = holdings[i].quantity * EffectivePrice(holdings[i])
                    /\ row.invested = 0 => row.pl_percent = RInt(0)


\* The calls of the step that went to that gateway, in order
CallsTo(gateway) == SelectSeq(calls', LAMBDA c : c.to = gateway)

Succeeded(replies) == {i \in DOMAIN replies : Truthy(replies[i])}

BatchAnalysisVisitsAll ==
    response'.op = "batch_analyze_all" =>
        LET replies == response'.recommendations
        IN  /\ CallsTo("get_claude_analysis") =
                  [i \in DOMAIN holdings |-> AnalysisCall(holdings[i].symbol)]
            /\ Len(holdings') = Len(holdings)
            /\ \A i \in DOMAIN holdings :
                  IF i \in Succeeded(replies)
                  THEN holdings'[i].recommendations = replies[i]
                  ELSE holdings'[i] = holdings[i]
            /\ response'.analyzed = Cardinality(Succeeded(replies))
            /\ response'.total = Len(holdings)

\* C27: a batch analysis sends each holding to the gateway once, in order,
\* whatever the earlier requests returned; a holding whose request failed is
\* left as it was, one whose request succeeded has the reply as its set;
\* analyzed counts the requests that succeeded and total the holdings.
C27_BatchAnalysisSurvivesFailures == [][BatchAnalysisVisitsAll]_vars

C27_Witness ==
    /\ Batched
    /\ Len(holdings) = 2
    /\ response.recommendations[1] = JNull
    /\ response.recommendations[2] = RecSet({"1m"}, "BUY", "undervalued")
    /\ holdings[1].recommendations = RecSet(Horizons, "SELL", "overvalued")
    /\ holdings[2].recommendations = RecSet({"1m"}, "BUY", "undervalued")
    /\ response.analyzed = 1
    /\ response.total = 2


\* The holdings whose fetch returned a price
Priced(lives) == {i \in DOMAIN lives : lives[i] # JNull}

BatchRefreshSetsFetched ==
    response'.op = "batch_update_prices" =>
        LET lives == response'.fetched
        IN  /\ CallsTo("fetch_live_price") =
                  [i \in DOMAIN holdings |-> PriceCall(holdings[i].symbol)]
            /\ Len(holdings') = Len(holdings)
            /\ \A i \in DOMAIN holdings :
                  IF i \in Priced(lives)
                  THEN holdings'[i].current_price = lives[i]
                  ELSE holdings'[i] = holdings[i]
            /\ response'.updated = Cardinality(Priced(lives))
            /\ response'.total = Len(holdings)

\* C28: a batch refresh fetches a price for each holding once, in order;
\* each holding whose fetch returned a price has that price as its current
\* price, every other holding is as it was; updated counts the holdings
\* whose price was set and total the holdings.
C28_BatchRefreshSetsEveryFetchedPrice == [][BatchRefreshSetsFetched]_vars

=============================================================================
